---- MODULE Spec2Model ----
(***************************************************************************)
(* Model of hypermindz_tools/crewai/rag_search.py: the class               *)
(* HypermindzRAGSearchTool (constructor, validate_config, search) and the  *)
(* agent-callable wrapper hypermindz_rag_search.                           *)
(*                                                                         *)
(* Python values are represented as follows.                               *)
(*   - An Optional[str] configuration value is a TLA+ string; Python's     *)
(*     None is the token None below, which is no member of the strings     *)
(*     the model passes around.                                            *)
(*   - A Python string that the code BUILDS (an f-string, str(x), a        *)
(*     message literal) is the sequence of its fragments, so prefixes and  *)
(*     embedded names can be observed: f"Bearer {k}" is <<"Bearer ", k>>.  *)
(*   - An exception is a record [cls, msg], msg being str(e) as fragments. *)
(***************************************************************************)
EXTENDS Integers, Sequences, FiniteSets, TLC

VARIABLES
    environ,   \* os.environ restricted to the two variables the code reads
    tool,      \* the HypermindzRAGSearchTool object the caller holds
    last       \* the most recent call: its arguments, what it returned or
               \* raised, and the requests.get / response.json calls it made

vars == <<environ, tool, last>>

(***************************************************************************)
(* Bounds and input domains                                                *)
(***************************************************************************)
\* longest `results` list a response body carries
MaxResults == 2

None == "None"

URL_VAR == "HYPERMINDZ_RAG_URL"
KEY_VAR == "HYPERMINDZ_RAG_API_KEY"
EnvVars == {URL_VAR, KEY_VAR}

\* values an environment variable may hold (None: unset)
EnvVals == {None, "", "env-value"}
\* values a caller may pass for api_url / api_key (None: argument omitted)
ArgVals == {None, "", "arg-value"}

Queries == {"test query", "q"}

\* the timeout argument of search: either omitted or given
NotGiven == [given |-> FALSE, value |-> 0]
Given(t) == [given |-> TRUE, value |-> t]
TimeoutArgs == {NotGiven, Given(5)}
DefaultTimeout == 30

\* binding of a parameter that has a default value
Bind(arg, default) == IF arg.given THEN arg.value ELSE default

(***************************************************************************)
(* Python helpers                                                          *)
(***************************************************************************)
\* truthiness of an Optional[str]: None and "" are falsy
Truthy(v) == v # None /\ v # ""

\* Python's `a or b`
Or(a, b) == IF Truthy(a) THEN a ELSE b

\* os.getenv(name): the variable's value, None when unset
getenv(env, name) == env[name]

NoExc == [cls |-> "none", msg |-> <<>>]

\* exception classes that are subclasses of requests.exceptions.RequestException
RequestExceptionClasses ==
    {"RequestException", "ConnectionError", "Timeout", "HTTPError",
     "requests.JSONDecodeError"}

\* exception classes that are subclasses of Exception
ExceptionClasses ==
    RequestExceptionClasses
    \cup {"Exception", "ValueError", "AttributeError", "KeyError"}


(***************************************************************************)
(* What the HTTP transport (requests.get) may do in one call               *)
(***************************************************************************)
\* the class response.json() raises on a body that is not JSON depends on
\* the installed requests: json.JSONDecodeError (a ValueError) before 2.27,
\* requests.exceptions.JSONDecodeError (a RequestException) from 2.27 on
JsonErrors == {"ValueError", "requests.JSONDecodeError"}

Body(type, keys, results, json_error) ==
    [type |-> type, keys |-> keys, results |-> results, json_error |-> json_error]

NoBody == Body("none", {}, <<>>, "none")

\* the list of the first n result entries: <<"result1", ..., "result<n>">>
ResultList(n) == [i \in 1..n |-> "result" \o ToString(i)]

\* response bodies: a JSON object with a `results` list (empty or not),
\* one without the field; a JSON array; text that is not JSON
Bodies ==
    {Body("object", {"results"}, ResultList(n), "none") : n \in 0..MaxResults}
    \cup { Body("object", {}, <<>>, "none"),
           Body("array", {}, <<>>, "none") }
    \cup {Body("malformed", {}, <<>>, e) : e \in JsonErrors}

Statuses == {200, 304, 404, 500}

\* exceptions requests.get itself may raise (the last one is the generic
\* failure a mocked transport raises in the tests)
TransportErrors ==
    { [cls |-> "ConnectionError", msg |-> <<"Connection error">>],
      [cls |-> "Timeout", msg |-> <<"Read timed out.">>],
      [cls |-> "Exception", msg |-> <<"Unexpected error">>] }

Raises(e) == [kind |-> "raise", exc |-> e, status |-> 0, body |-> NoBody]
Response(s, b) == [kind |-> "response", exc |-> NoExc, status |-> s, body |-> b]
NoTransport == [kind |-> "none", exc |-> NoExc, status |-> 0, body |-> NoBody]

Transports ==
    {Raises(e) : e \in TransportErrors}
    \cup {Response(200, b) : b \in Bodies}
    \cup {Response(s, b) : s \in Statuses \ {200},
                           b \in {x \in Bodies : \/ x.json_error = "ValueError"
                                                 \/ Len(x.results) = MaxResults}}

(***************************************************************************)
(* HypermindzRAGSearchTool                                                 *)
(***************************************************************************)
\* how a call ends: with a returned string, or with an exception; `sent` are
\* the requests.get calls it made, `parsed` counts its response.json() calls
Returned(text, sent, parsed) ==
    [ret |-> text, exc |-> NoExc, sent |-> sent, parsed |-> parsed]
Raised(e, sent, parsed) ==
    [ret |-> <<>>, exc |-> e, sent |-> sent, parsed |-> parsed]

\* __init__(self, api_url=None, api_key=None): the object's two fields
HypermindzRAGSearchTool(api_url, api_key, env) ==
    [api_url |-> Or(api_url, getenv(env, URL_VAR)),
     api_key |-> Or(api_key, getenv(env, KEY_VAR))]

MissingMsg(name) ==
    <<"Error: ", name, " not provided or environment variable not set">>

\* faulty variant: the API key is checked before the URL
validate_config_KeyFirst(self) ==
    IF ~Truthy(self.api_key)
    THEN <<FALSE, MissingMsg("HYPERMINDZ_RAG_API_KEY")>>
    ELSE IF ~Truthy(self.api_url)
         THEN <<FALSE, MissingMsg("HYPERMINDZ_RAG_URL")>>
         ELSE <<TRUE, <<>> >>

\* validate_config(self) -> (is_valid, error_message)
validate_config(self) ==
    IF ~Truthy(self.api_url) THEN <<FALSE, MissingMsg("HYPERMINDZ_RAG_URL")>>
    ELSE IF ~Truthy(self.api_key)
         THEN <<FALSE, MissingMsg("HYPERMINDZ_RAG_API_KEY")>>
         ELSE <<TRUE, <<>> >>

\* faulty variant: the caller's timeout is dropped and the default is sent
Request_FixedTimeout(self, query_text, timeout) ==
    [url     |-> self.api_url,
     params  |-> [query |-> query_text],
     headers |-> [Authorization |-> <<"Bearer ", self.api_key>>],
     timeout |-> DefaultTimeout]

\* the arguments of the requests.get call of search
Request(self, query_text, timeout) ==
    [url     |-> self.api_url,
     params  |-> [query |-> query_text],
     headers |-> [Authorization |-> <<"Bearer ", self.api_key>>],
     timeout |-> timeout]

\* faulty variant: the status check is left out
raise_for_status_Never(status) == NoExc

\* response.raise_for_status(): requests raises HTTPError for the statuses
\* 400..599 and returns for every other one
raise_for_status(status) ==
    IF 400 <= status /\ status < 500
    THEN [cls |-> "HTTPError", msg |-> <<ToString(status), " Client Error">>]
    ELSE IF 500 <= status /\ status < 600
         THEN [cls |-> "HTTPError", msg |-> <<ToString(status), " Server Error">>]
         ELSE NoExc

\* response.json(): the parsed value, or the exception of a body that is
\* not JSON
json(body) ==
    IF body.type = "malformed"
    THEN [cls |-> body.json_error, msg |-> <<"Expecting value: line 1 column 1 (char 0)">>]
    ELSE NoExc

\* faulty variant: <parsed body>["results"], without the default
get_results_NoDefault(body) ==
    IF body.type # "object"
    THEN [exc |-> [cls |-> "AttributeError",
                   msg |-> <<"'list' object has no attribute 'get'">>],
          value |-> <<>>]
    ELSE IF "results" \in body.keys
         THEN [exc |-> NoExc, value |-> body.results]
         ELSE [exc |-> [cls |-> "KeyError", msg |-> <<"'results'">>],
               value |-> <<>>]

\* <parsed body>.get("results", []): only a dict has .get
get_results(body) ==
    IF body.type # "object"
    THEN [exc |-> [cls |-> "AttributeError",
                   msg |-> <<"'list' object has no attribute 'get'">>],
          value |-> <<>>]
    ELSE [exc |-> NoExc,
          value |-> IF "results" \in body.keys THEN body.results ELSE <<>>]

\* repr of a str item and str() of a list of them: "['a', 'b']"
RECURSIVE Items(_)
Items(xs) ==
    IF xs = <<>> THEN <<>>
    ELSE IF Len(xs) = 1 THEN <<"'", Head(xs), "'">>
    ELSE <<"'", Head(xs), "'", ", ">> \o Items(Tail(xs))

str(results) == <<"[">> \o Items(results) \o <<"]">>

NoResultsMsg == <<"No relevant datasets found.">>

\* the body of the try statement of search
TryBlock(self, query_text, timeout, transport) ==
    LET sent == <<Request(self, query_text, timeout)>>
        http == raise_for_status(transport.status)
        bad  == json(transport.body)
        got  == get_results(transport.body)
    IN  IF transport.kind = "raise" THEN Raised(transport.exc, sent, 0)
        ELSE IF http # NoExc THEN Raised(http, sent, 0)
        ELSE IF bad # NoExc THEN Raised(bad, sent, 1)
        ELSE IF got.exc # NoExc THEN Raised(got.exc, sent, 1)
        ELSE IF got.value = <<>> THEN Returned(NoResultsMsg, sent, 1)
        ELSE Returned(str(got.value), sent, 1)

\* faulty variant: only `except RequestException`, no catch-all clause
Handle_NoCatchAll(r) ==
    IF r.exc = NoExc THEN r
    ELSE IF r.exc.cls \in RequestExceptionClasses
         THEN Returned(<<"API request error: ">> \o r.exc.msg, r.sent, r.parsed)
    ELSE r

\* faulty variant: one clause, `except Exception`, reporting every failure as an
\* API request error
Handle_OneClause(r) ==
    IF r.exc = NoExc THEN r
    ELSE IF r.exc.cls \in ExceptionClasses
         THEN Returned(<<"API request error: ">> \o r.exc.msg, r.sent, r.parsed)
    ELSE r

\* the two except clauses of search, in their order
Handle(r) ==
    IF r.exc = NoExc THEN r
    ELSE IF r.exc.cls \in RequestExceptionClasses
         THEN Returned(<<"API request error: ">> \o r.exc.msg, r.sent, r.parsed)
    ELSE IF r.exc.cls \in ExceptionClasses
         THEN Returned(<<"Unexpected error: ">> \o r.exc.msg, r.sent, r.parsed)
    ELSE r

\* faulty variant: the request is made without validating the configuration first
search_NoValidation(self, query_text, timeout, transport) ==
    Handle(TryBlock(self, query_text, timeout, transport))

\* search(self, query_text, timeout=30) -> str
search(self, query_text, timeout, transport) ==
    LET v == validate_config(self)
    IN  IF ~v[1] THEN Returned(v[2], <<>>, 0)
        ELSE Handle(TryBlock(self, query_text, timeout, transport))

\* faulty variant: the wrapper searches with a client that already exists instead
\* of constructing one
hypermindz_rag_search_Shared(query_text, env, transport) ==
    LET call == [self |-> tool, query_text |-> query_text, timeout |-> NotGiven]
        r == search(call.self, call.query_text, Bind(call.timeout, DefaultTimeout),
                    transport)
    IN  [made |-> <<>>, searches |-> <<call>>, result |-> r]

\* hypermindz_rag_search(query_text) -> str: the constructor calls and the
\* search calls it makes, and what it returns
hypermindz_rag_search(query_text, env, transport) ==
    LET ctor == [api_url |-> None, api_key |-> None]
        tool_instance == HypermindzRAGSearchTool(ctor.api_url, ctor.api_key, env)
        call == [self |-> tool_instance, query_text |-> query_text,
                 timeout |-> NotGiven]
        r == search(call.self, call.query_text, Bind(call.timeout, DefaultTimeout),
                    transport)
    IN  [made |-> <<ctor>>, searches |-> <<call>>, result |-> r]


(***************************************************************************)
(* State machine: a caller constructing clients, changing the environment, *)
(* and calling validate_config, search and the wrapper                     *)
(***************************************************************************)
Idle ==
    [op |-> "none", query_text |-> "", timeout |-> NotGiven,
     transport |-> NoTransport, ok |-> TRUE, ret |-> <<>>, exc |-> NoExc,
     sent |-> <<>>, parsed |-> 0, made |-> <<>>, searches |-> <<>>]

\* the record of a constructor call
Constructed(api_url, api_key) ==
    [Idle EXCEPT !.op = "__init__",
                 !.made = <<[api_url |-> api_url, api_key |-> api_key]>>]

\* the caller has constructed its client
Init ==
    /\ environ \in [EnvVars -> EnvVals]
    /\ \E api_url \in ArgVals, api_key \in ArgVals :
          /\ tool = HypermindzRAGSearchTool(api_url, api_key, environ)
          /\ last = Constructed(api_url, api_key)

\* tool = HypermindzRAGSearchTool(api_url, api_key): a new client replaces
\* the one the caller held
Construct(api_url, api_key) ==
    /\ tool' = HypermindzRAGSearchTool(api_url, api_key, environ)
    /\ last' = Constructed(api_url, api_key)
    /\ UNCHANGED environ

\* os.environ[name] = value, or del os.environ[name] when value is None
Setenv(name, value) ==
    /\ environ[name] # value
    /\ environ' = [environ EXCEPT ![name] = value]
    /\ last' = Idle
    /\ UNCHANGED tool

\* tool.validate_config()
ValidateConfig ==
    LET v == validate_config(tool)
    IN  /\ last' = [Idle EXCEPT !.op = "validate_config",
                                !.ok = v[1], !.ret = v[2]]
        /\ UNCHANGED <<environ, tool>>

\* tool.search(query_text) or tool.search(query_text, timeout)
Search(query_text, timeout, transport) ==
    LET r == search(tool, query_text, Bind(timeout, DefaultTimeout), transport)
    IN  /\ last' = [Idle EXCEPT !.op = "search",
                                !.query_text = query_text, !.timeout = timeout,
                                !.transport = transport, !.ret = r.ret,
                                !.exc = r.exc, !.sent = r.sent,
                                !.parsed = r.parsed]
        /\ UNCHANGED <<environ, tool>>

\* hypermindz_rag_search(query_text)
ToolCall(query_text, transport) ==
    LET w == hypermindz_rag_search(query_text, environ, transport)
    IN  /\ last' = [Idle EXCEPT !.op = "hypermindz_rag_search",
                                !.query_text = query_text,
                                !.transport = transport, !.ret = w.result.ret,
                                !.exc = w.result.exc, !.sent = w.result.sent,
                                !.parsed = w.result.parsed, !.made = w.made,
                                !.searches = w.searches]
        /\ UNCHANGED <<environ, tool>>

Next ==
    \/ \E api_url \in ArgVals, api_key \in ArgVals : Construct(api_url, api_key)
    \/ \E name \in EnvVars, value \in EnvVals : Setenv(name, value)
    \/ ValidateConfig
    \/ \E q \in Queries, t \in TimeoutArgs, tr \in Transports : Search(q, t, tr)
    \/ \E q \in Queries, tr \in Transports : ToolCall(q, tr)

Spec == Init /\ [][Next]_vars


(***************************************************************************)
(* Properties                                                              *)
(***************************************************************************)
Range(s) == {s[i] : i \in DOMAIN s}
StartsWith(s, prefix) == Len(s) >= 1 /\ s[1] = prefix

\* the configuration of the caller's client is valid: both fields non-empty
Valid == Truthy(tool.api_url) /\ Truthy(tool.api_key)

SearchDone == last.op = "search"
Responded == last.transport.kind = "response"
Status2xx == last.transport.status \in 200..299

\* the entries of `items`, in their order, are what `text` holds of them
Renders(text, items) ==
    LET IsItem(f) == f \in Range(items)
    IN  SelectSeq(text, IsItem) = items

\* C1: search never lets an exception propagate; whatever the configuration,
\* the query and the transport's outcome, it returns a string that is the
\* validation message, the fixed empty-result message, the rendering of the
\* results, or begins with "API request error: " or "Unexpected error: ".
C1_SearchAlwaysReturnsText ==
    SearchDone =>
        /\ last.exc = NoExc
        /\ \/ last.ret = <<"Error: ", "HYPERMINDZ_RAG_URL",
                           " not provided or environment variable not set">>
           \/ last.ret = <<"Error: ", "HYPERMINDZ_RAG_API_KEY",
                           " not provided or environment variable not set">>
           \/ last.ret = <<"No relevant datasets found.">>
           \/ /\ Responded
              /\ last.transport.body.results # <<>>
              /\ StartsWith(last.ret, "[")
              /\ Renders(last.ret, last.transport.body.results)
           \/ StartsWith(last.ret, "API request error: ")
           \/ StartsWith(last.ret, "Unexpected error: ")

\* a generic exception raised by the transport came back as text
C1_Witness ==
    /\ SearchDone /\ Valid
    /\ last.transport.kind = "raise"
    /\ last.transport.exc.cls = "Exception"
    /\ last.exc = NoExc
    /\ last.ret = <<"Unexpected error: ", "Unexpected error">>

\* C2: on an invalid configuration search makes no HTTP request and returns
\* exactly the message validate_config produced.
C2_InvalidConfigNoRequest ==
    (SearchDone /\ ~validate_config(tool)[1]) =>
        /\ last.sent = <<>>
        /\ last.parsed = 0
        /\ last.exc = NoExc
        /\ last.ret = validate_config(tool)[2]

\* search on a client without an API key, with a transport that would answer
C2_Witness ==
    /\ SearchDone
    /\ Truthy(tool.api_url) /\ ~Truthy(tool.api_key)
    /\ Responded /\ last.transport.body.results # <<>>
    /\ last.sent = <<>>
    /\ "HYPERMINDZ_RAG_API_KEY" \in Range(last.ret)

HasDatasetId(self) ==
    "dataset_id" \in DOMAIN self /\ Truthy(self.dataset_id)

\* C4: a client with URL and API key but without a dataset id is reported
\* invalid, with a message naming HYPERMINDZ_DATASET_ID.
C4_MissingDatasetRejected ==
    (last.op = "validate_config" /\ Valid /\ ~HasDatasetId(tool)) =>
        /\ ~last.ok
        /\ "HYPERMINDZ_DATASET_ID" \in Range(last.ret)

TransportFailed ==
    /\ last.transport.kind = "raise"
    /\ last.transport.exc.cls \in {"ConnectionError", "Timeout"}

\* search returned "API request error: " and the message of transport
\* failure or of the status check, without parsing the body
ReportedApiError ==
    /\ last.exc = NoExc
    /\ StartsWith(last.ret, "API request error: ")
    /\ last.parsed = 0
    /\ TransportFailed => last.ret = <<"API request error: ">> \o last.transport.exc.msg
    /\ Responded => ToString(last.transport.status) \in Range(last.ret)

\* C6 as stated: on a valid configuration every network-layer failure,
\* a response with any non-2xx status included, makes search return
\* "API request error: " and the failure's message, the body never parsed.
C6_Non2xxIsApiError ==
    (SearchDone /\ Valid /\ (TransportFailed \/ (Responded /\ ~Status2xx)))
        => ReportedApiError

\* C6 amended: on a valid configuration a connection error, a timeout and a
\* response with a 4xx or 5xx status (the statuses raise_for_status raises
\* for) make search return "API request error: " and the failure's message,
\* the body never parsed.
C6_ErrorStatusIsApiError ==
    (SearchDone /\ Valid
        /\ (TransportFailed \/ (Responded /\ last.transport.status \in 400..599)))
        => ReportedApiError

\* a 404 response that carries a results list is reported as an API error
C6_Witness ==
    /\ SearchDone /\ Valid /\ Responded
    /\ last.transport.status = 404
    /\ last.transport.body.results # <<>>
    /\ StartsWith(last.ret, "API request error: ")
    /\ last.parsed = 0

\* a generic exception raised by the transport
GenericFailure ==
    /\ last.transport.kind = "raise"
    /\ last.transport.exc.cls = "Exception"

\* a 2xx response whose body is not JSON
MalformedBody ==
    Responded /\ Status2xx /\ last.transport.body.type = "malformed"

\* a 2xx response whose body is JSON, but no object
NonObjectBody ==
    Responded /\ Status2xx /\ last.transport.body.type = "array"

ReportedUnexpected ==
    /\ last.exc = NoExc
    /\ StartsWith(last.ret, "Unexpected error: ")
    /\ ~StartsWith(last.ret, "API request error: ")
    /\ GenericFailure => last.ret = <<"Unexpected error: ">> \o last.transport.exc.msg
    /\ Len(last.ret) >= 2

\* C7 as stated: on a valid configuration a failure that is no network-layer
\* failure, in particular a 2xx response with a malformed JSON body and a
\* generic exception of the transport, makes search return
\* "Unexpected error: " and the failure's message, never "API request error: ".
C7_MalformedIsUnexpected ==
    (SearchDone /\ Valid /\ (GenericFailure \/ MalformedBody \/ NonObjectBody))
        => ReportedUnexpected

\* C7 amended: a generic exception of the transport, a 2xx JSON body that is
\* no object, and a malformed 2xx body for which response.json() raises a
\* plain ValueError give "Unexpected error: "; a malformed 2xx body for which
\* response.json() raises requests.exceptions.JSONDecodeError, which is a
\* RequestException, gives "API request error: ".
C7_UnexpectedUnlessRequestException ==
    (SearchDone /\ Valid) =>
        /\ ( \/ GenericFailure
             \/ NonObjectBody
             \/ (MalformedBody /\ last.transport.body.json_error = "ValueError") )
           => ReportedUnexpected
        /\ (MalformedBody
                /\ last.transport.body.json_error = "requests.JSONDecodeError")
           => /\ last.exc = NoExc
              /\ StartsWith(last.ret, "API request error: ")
              /\ last.parsed = 1

\* a malformed body whose parse error is a plain ValueError
C7_Witness ==
    /\ SearchDone /\ Valid /\ MalformedBody
    /\ last.transport.body.json_error = "ValueError"
    /\ StartsWith(last.ret, "Unexpected error: ")
    /\ last.parsed = 1

\* C8: on a valid configuration and a 2xx response with a JSON object, an
\* empty or absent `results` gives exactly "No relevant datasets found.",
\* and a non-empty `results` list gives the rendering of the full list,
\* never that message.
C8_EmptyOrRendered ==
    (SearchDone /\ Valid /\ Responded /\ Status2xx
        /\ last.transport.body.type = "object") =>
        LET body == last.transport.body
            present == "results" \in body.keys /\ body.results # <<>>
        IN  /\ ~present => last.ret = <<"No relevant datasets found.">>
            /\ present =>
                  /\ last.ret # <<"No relevant datasets found.">>
                  /\ StartsWith(last.ret, "[")
                  /\ last.ret[Len(last.ret)] = "]"
                  /\ Renders(last.ret, body.results)
            /\ last.exc = NoExc

\* a JSON object without a `results` field gives the fixed message
C8_Witness ==
    /\ SearchDone /\ Valid /\ Responded /\ Status2xx
    /\ last.transport.body.type = "object"
    /\ "results" \notin last.transport.body.keys
    /\ last.ret = <<"No relevant datasets found.">>

\* C9: an invocation of hypermindz_rag_search constructs exactly one client,
\* without arguments (its configuration is the environment's at that time),
\* calls its search once with the query text and no other argument, and
\* returns what search returned; the client is no client of an earlier call.
C9_WrapperDelegates ==
    last.op = "hypermindz_rag_search" =>
        /\ last.made = <<[api_url |-> None, api_key |-> None]>>
        /\ Len(last.searches) = 1
        /\ last.searches[1].self =
              [api_url |-> environ["HYPERMINDZ_RAG_URL"],
               api_key |-> environ["HYPERMINDZ_RAG_API_KEY"]]
        /\ last.searches[1].query_text = last.query_text
        /\ ~last.searches[1].timeout.given
        /\ LET r == search(last.searches[1].self, last.query_text, 30,
                           last.transport)
           IN  /\ last.ret = r.ret
               /\ last.exc = r.exc
               /\ last.sent = r.sent

\* the wrapper searched with the environment's configuration while the
\* caller's own client has none
C9_Witness ==
    /\ last.op = "hypermindz_rag_search"
    /\ ~Valid
    /\ Len(last.made) = 1
    /\ Len(last.sent) = 1
    /\ last.sent[1].url = "env-value"
    /\ last.sent[1].params.query = last.query_text

\* C10 (construction): each field of a client equals the constructor
\* argument when one is given, else the environment variable's value at
\* construction, and construction makes no network call and no validation.
C10_ExplicitArgumentWins ==
    last.op = "__init__" =>
        /\ Len(last.made) = 1
        /\ tool.api_url = IF last.made[1].api_url # None
                           THEN last.made[1].api_url
                           ELSE environ["HYPERMINDZ_RAG_URL"]
        /\ tool.api_key = IF last.made[1].api_key # None
                           THEN last.made[1].api_key
                           ELSE environ["HYPERMINDZ_RAG_API_KEY"]
        /\ last.sent = <<>> /\ last.parsed = 0

\* C10 (frame): validate_config, search, the wrapper and changes of the
\* environment leave the client's configuration as it is.
C10_ConfigurationFrame ==
    [][last'.op # "__init__" => tool' = tool]_vars

====
